---- MODULE Spec2Model ----
(***************************************************************************)
(* Meeting-bot lifecycle reconciliation of contentcraft: the               *)
(* toggle-recording route, RecallService (createBot, updateBotStatus,      *)
(* processMeeting, getTranscript) and the one-minute background sweep.     *)
(*                                                                         *)
(* Every storage call (one SQL statement) is one atomic step.  A call to   *)
(* the recording provider touches no row, so it is folded into the storage *)
(* step that follows it; its answer is an input of that step.  Times are   *)
(* minutes.  The two bulk-delete test routes are left out.                 *)
(***************************************************************************)
EXTENDS Integers, Sequences, FiniteSets, TLC

\* ------------------------------------------------------------------ bounds
NumToggles == 2        \* toggle-recording requests (each runs once)
NumSweeps == 1         \* sweep callbacks that may be in flight together
NumFetchers == 1       \* fetch-transcript requests in flight together
MaxChanges == 2        \* longest status_changes list the provider returns
MaxContents == 1       \* rows of meeting_contents

\* ------------------------------------------------------- program constants
DefaultJoinMinutes == 5
TranscriptionQuiescence == 2
RecordingQuiescence == 5

\* --------------------------------------------------------------- fixtures
\* Two synced calendar events of the signed-in user: event 1 has a meeting
\* link, event 2 has none.  Both start at 15:00 (minute 900 of the day).
EventIds == {1, 2}
StartTime == 900
HasMeetingLink(e) == e = 1

\* Clock readings of `new Date()` around the join times of the fixtures.
ClockReadings == {StartTime - 32, StartTime - 31, StartTime - 30,
                  StartTime - 11, StartTime - 10, StartTime - 9,
                  StartTime - 6, StartTime - 5, StartTime - 4}

\* Values a PATCH /api/settings body may carry for botJoinMinutesBefore.
SettingsInputs == {0, 10, 31}

NoId == 0
\* A text is a sequence of tokens (words and blanks); a null column is its
\* own value.
NoTranscript == <<"<null>">>
FailedPlaceholder == <<"Failed to create recording bot">>

Toggles == 1..NumToggles
Sweeps == 1..NumSweeps
Fetchers == 1..NumFetchers

\* ------------------------------------------------------------ status words
BotStatuses == {"scheduled", "joining", "recording", "completed", "failed"}
MeetingStatuses == {"scheduled", "in_progress", "completed", "failed"}

ProviderCodes == {"ready", "joining_call", "in_waiting_room", "in_call_not_recording",
                  "in_call_recording", "call_ended", "recording_done", "done",
                  "failed", "error", "fatal"}

\* The statuses the sweep selects as active.
ActiveStatusesWithCompleted == {"scheduled", "joined", "joining", "recording", "completed"}
ActiveStatuses == {"scheduled", "joined", "joining", "recording"}

VARIABLES
    settings,        \* the user's settings row: [exists, botJoinMinutesBefore]
    recordingFlag,   \* calendar_events.is_recording_enabled, per event
    recallBots,      \* table recall_bots: sequence of rows, id = index
    meetings,        \* table meetings: sequence of rows, id = index
    toggle,          \* per toggle-recording request: position and locals
    sweep,           \* per sweep callback: position and locals
    fetcher,         \* per fetch-transcript request: position and locals
    provReq,         \* provider requests sent by the last step
    nowRead,         \* the clock reading of the last step (0: none)
    poll,            \* last status mapping applied on its own (SpecMap)
    asked,           \* history: bots whose transcript endpoints were requested
                     \* since the latest sweep began
    evalRun,         \* last processMeeting pass applied on its own (SpecEval)
    settled,         \* environment: TRUE once the provider keeps reporting a
                     \* finished, transcribed recording and storage calls succeed
    meetingContents, \* table meeting_contents: sequence of rows, id = index
    genResponse      \* the answer of the last content generation request

vars == <<settings, recordingFlag, recallBots, meetings, toggle, sweep, fetcher,
          provReq, nowRead, poll, asked, evalRun, settled, meetingContents, genResponse>>

\* ------------------------------------------------------------ pure helpers
\* userSettings?.botJoinMinutesBefore || 5
JoinMinutes(s) ==
    IF s.exists /\ s.botJoinMinutesBefore # 0 THEN s.botJoinMinutesBefore
    ELSE DefaultJoinMinutes

\* joinTime.setMinutes(joinTime.getMinutes() - minutes)
JoinTimeAfterStart(startTime, s) == startTime + JoinMinutes(s)
JoinTime(startTime, s) == startTime - JoinMinutes(s)

\* botStatus.status_changes[botStatus.status_changes.length - 1].code
LatestStatus(changes) == changes[Len(changes)]

\* The if/else-if chain of updateBotStatus.
MapStatusNoFailed(latestStatus, current) ==
    IF latestStatus = "ready" THEN "scheduled"
    ELSE IF latestStatus \in {"joining_call", "in_waiting_room"} THEN "joining"
    ELSE IF latestStatus \in {"in_call_not_recording", "in_call_recording"} THEN "recording"
    ELSE IF latestStatus \in {"call_ended", "recording_done", "done"} THEN "completed"
    ELSE current
MapStatus(latestStatus, current) ==
    IF latestStatus = "ready" THEN "scheduled"
    ELSE IF latestStatus \in {"joining_call", "in_waiting_room"} THEN "joining"
    ELSE IF latestStatus \in {"in_call_not_recording", "in_call_recording"} THEN "recording"
    ELSE IF latestStatus \in {"call_ended", "recording_done", "done"} THEN "completed"
    ELSE IF latestStatus \in {"failed", "error"} THEN "failed"
    ELSE current

\* What the provider answers to GET /bot/:id, as far as updateBotStatus reads
\* it: a failed request, or a status_changes list.
ProviderError == [ok |-> FALSE, changes |-> <<>>]
ChangeLists(n) ==
    UNION {[1..k -> ProviderCodes] : k \in 0..n}
StatusAnswers(n) == {ProviderError} \cup {[ok |-> TRUE, changes |-> c] : c \in ChangeLists(n)}

\* The answers the sweep is fed: every latest code, behind a history of
\* `ready` entries (the code reads the last entry only).
SweepAnswers ==
    {a \in StatusAnswers(MaxChanges) :
        \A i \in 1..(Len(a.changes) - 1) : a.changes[i] = "ready"}

UpdateBotStatusFailOnError(current, answer) ==
    IF ~answer.ok THEN "failed"
    ELSE IF Len(answer.changes) = 0 THEN current
    ELSE MapStatus(LatestStatus(answer.changes), current)

\* updateBotStatus: the status it returns for a row whose status is `current`.
UpdateBotStatus(current, answer) ==
    IF ~answer.ok THEN current
    ELSE IF Len(answer.changes) = 0 THEN current
    ELSE MapStatus(LatestStatus(answer.changes), current)

\* The sweep's meeting status for a changed bot status.
MeetingStatusFor(botStatus, meetingStatus) ==
    IF botStatus = "joined" THEN "in_progress"
    ELSE IF botStatus = "recording" THEN "in_progress"
    ELSE IF botStatus = "completed" THEN "completed"
    ELSE IF botStatus = "failed" THEN "failed"
    ELSE meetingStatus

\* ------------------------------------------------------------ storage layer
BotIds == DOMAIN recallBots
MeetingIds == DOMAIN meetings
BotsOfEvent(e) == {b \in BotIds : recallBots[b].calendarEventId = e}
MeetingsOfEvent(e) == {m \in MeetingIds : meetings[m].calendarEventId = e}

\* `const [row] = await db.select()...where(calendarEventId = e)`: the first
\* row of a query without ORDER BY is any matching row; NoId when none.
FirstRowChoices(ids) == IF ids = {} THEN {NoId} ELSE ids

\* db.select().from(recallBots).where(status in ...), in id order, as the
\* row objects the caller then holds.
RECURSIVE RowsFrom(_, _)
RowsFrom(i, statuses) ==
    IF i > Len(recallBots) THEN <<>>
    ELSE IF recallBots[i].status \in statuses
         THEN <<[id |-> i, calendarEventId |-> recallBots[i].calendarEventId,
                 status |-> recallBots[i].status]>> \o RowsFrom(i + 1, statuses)
         ELSE RowsFrom(i + 1, statuses)
SelectBotsEnabled(statuses) ==
    SelectSeq(RowsFrom(1, statuses), LAMBDA row : recordingFlag[row.calendarEventId])
SelectBots(statuses) == RowsFrom(1, statuses)

NoRow == [id |-> NoId, calendarEventId |-> NoId, status |-> "none"]

\* A request to the provider: the endpoint, the method that sends it, the
\* bot it names and, for POST /bot, join_at.
Request(op, caller, bot, joinAt) ==
    [op |-> op, caller |-> caller, bot |-> bot, joinAt |-> joinAt]
NoPoll == [before |-> "none", answer |-> ProviderError, after |-> "none"]
NoEval == [botStatus |-> "none", done |-> FALSE]
NoResponse == [meeting |-> NoId, type |-> "none", code |-> 0]

\* ------------------------------------------------------------------- Init
IdleToggle == [pc |-> "idle", eventId |-> NoId, outcome |-> "none", meeting |-> NoId,
               bot |-> NoId, response |-> 0]
IdleSweep == [pc |-> "idle", queue |-> <<>>, updated |-> "none", meeting |-> NoId,
              meetingStatus |-> "none", failure |-> FALSE]
IdleFetcher == [pc |-> "idle", bot |-> NoRow, meeting |-> NoId]

Init ==
    /\ settings = [exists |-> TRUE, botJoinMinutesBefore |-> DefaultJoinMinutes]
    /\ recordingFlag = [e \in EventIds |-> FALSE]
    /\ recallBots = <<>>
    /\ meetings = <<>>
    /\ toggle = [p \in Toggles |-> IdleToggle]
    /\ sweep = [s \in Sweeps |-> IdleSweep]
    /\ fetcher = [f \in Fetchers |-> IdleFetcher]
    /\ provReq = <<>>
    /\ nowRead = 0
    /\ poll = NoPoll
    /\ asked = {}
    /\ evalRun = NoEval
    /\ settled = FALSE
    /\ meetingContents = <<>>
    /\ genResponse = NoResponse

\* ------------------------------------------------------------- scheduling
\* Node runs one callback at a time and switches at an await.  `alone` asks
\* for more: the step is taken only while no other request or sweep is
\* between its first and its last step.
ToggleBusy(p) == toggle[p].pc \notin {"idle", "done"}
SweepBusy(s) == sweep[s].pc # "idle"
FetcherBusy(f) == fetcher[f].pc # "idle"
OthersIdle(kind, id) ==
    /\ \A p \in Toggles : (kind = "toggle" /\ p = id) \/ ~ToggleBusy(p)
    /\ \A s \in Sweeps : (kind = "sweep" /\ s = id) \/ ~SweepBusy(s)
    /\ \A f \in Fetchers : (kind = "fetcher" /\ f = id) \/ ~FetcherBusy(f)
Turn(alone, kind, id) == alone => OthersIdle(kind, id)

\* ------------------------------------------- PATCH /api/settings (one step)
\* insertSettingsSchema.pick(...).parse accepts any integer; the row is
\* created when missing and updated otherwise.
UpdateSettings(alone) ==
    /\ Turn(alone, "none", NoId)
    /\ \E minutes \in SettingsInputs :
          settings' = [exists |-> TRUE, botJoinMinutesBefore |-> minutes]
    /\ provReq' = <<>>
    /\ nowRead' = 0
    /\ UNCHANGED <<recordingFlag, recallBots, meetings, toggle, sweep, fetcher, poll, asked, evalRun, settled, meetingContents, genResponse>>

\* ------------------------- PATCH /api/calendar-events/:id/toggle-recording
NewMeeting(e, p) ==
    [calendarEventId |-> e, recallBotId |-> NoId, status |-> "scheduled",
     transcript |-> NoTranscript, req |-> p]
NewBot(e, p) == [calendarEventId |-> e, status |-> "scheduled", req |-> p]

\* The catch block's update of the meeting it created.
LeftAsIs(row) == row
FailedPatch(row) == [row EXCEPT !.status = "failed", !.transcript = FailedPlaceholder]

\* The lookup that guards creation.
ExistingBot(e) == BotsOfEvent(e) # {}

\* joinTime > new Date()
InFutureOrNow(joinTime, now) == joinTime >= now
InFuture(joinTime, now) == joinTime > now

\* res.json(updated): the answer of every request that got past
\* updateCalendarEvent, whatever the recording setup did.
ResponseOk == 200

\* updateCalendarEvent, getRecallBotByCalendarEventId, getSettings and the
\* clock reading: the request decides whether it goes on to create.
TgStart(p, alone) ==
    /\ Turn(alone, "toggle", p)
    /\ toggle[p].pc = "idle"
    /\ \E e \in EventIds, enable \in BOOLEAN, now \in ClockReadings :
          LET existing == ExistingBot(e)
              joinTime == JoinTime(StartTime, settings)
              future == InFuture(joinTime, now)
              outcome == IF ~enable THEN "disabled"
                         ELSE IF existing THEN "exists"
                         ELSE IF ~future THEN "past"
                         ELSE "none"
          IN /\ recordingFlag' = [recordingFlag EXCEPT ![e] = enable]
             /\ toggle' = [toggle EXCEPT ![p] =
                   [IdleToggle EXCEPT
                      !.pc = IF outcome = "none" THEN "createMeeting" ELSE "done",
                      !.eventId = e,
                      !.outcome = outcome,
                      !.response = IF outcome = "none" THEN 0 ELSE ResponseOk]]
             /\ nowRead' = IF enable /\ ~existing THEN now ELSE 0
    /\ provReq' = <<>>
    /\ UNCHANGED <<settings, recallBots, meetings, sweep, fetcher, poll, asked, evalRun, settled, meetingContents, genResponse>>

\* storage.createMeeting
TgCreateMeeting(p, alone) ==
    /\ Turn(alone, "toggle", p)
    /\ toggle[p].pc = "createMeeting"
    /\ meetings' = Append(meetings, NewMeeting(toggle[p].eventId, p))
    /\ toggle' = [toggle EXCEPT ![p].pc = "createBot", ![p].meeting = Len(meetings) + 1]
    /\ provReq' = <<>>
    /\ nowRead' = 0
    /\ UNCHANGED <<settings, recordingFlag, recallBots, sweep, fetcher, poll, asked, evalRun, settled, meetingContents, genResponse>>

\* recallService.createBot: the link check, getSettings, POST /bot,
\* storage.createRecallBot; on a throw, the route's catch block.
TgCreateBot(p, alone) ==
    /\ Turn(alone, "toggle", p)
    /\ toggle[p].pc = "createBot"
    /\ \E providerOk \in BOOLEAN, persistOk \in BOOLEAN :
          LET e == toggle[p].eventId
              linked == HasMeetingLink(e)
              joinAt == JoinTime(StartTime, settings)
              created == linked /\ providerOk /\ persistOk
          IN /\ provReq' = IF linked
                            THEN <<Request("createBot", "createBot", NoId, joinAt)>>
                            ELSE <<>>
             /\ nowRead' = 0
             /\ IF created
                THEN /\ recallBots' = Append(recallBots, NewBot(e, p))
                     /\ toggle' = [toggle EXCEPT ![p].pc = "link",
                                                 ![p].bot = Len(recallBots) + 1]
                     /\ UNCHANGED meetings
                ELSE /\ meetings' = [meetings EXCEPT
                                        ![toggle[p].meeting] = FailedPatch(@)]
                     /\ toggle' = [toggle EXCEPT ![p].pc = "done",
                                                 ![p].outcome = "failed",
                                                 ![p].response = ResponseOk]
                     /\ UNCHANGED recallBots
    /\ UNCHANGED <<settings, recordingFlag, sweep, fetcher, poll, asked, evalRun, settled, meetingContents, genResponse>>

\* storage.updateMeeting(meeting.id, { recallBotId: bot.id })
TgLink(p, alone) ==
    /\ Turn(alone, "toggle", p)
    /\ toggle[p].pc = "link"
    /\ meetings' = [meetings EXCEPT ![toggle[p].meeting].recallBotId = toggle[p].bot]
    /\ toggle' = [toggle EXCEPT ![p].pc = "done", ![p].outcome = "created",
                                ![p].response = ResponseOk]
    /\ provReq' = <<>>
    /\ nowRead' = 0
    /\ UNCHANGED <<settings, recordingFlag, recallBots, sweep, fetcher, poll, asked, evalRun, settled, meetingContents, genResponse>>

\* ------------------------------------------------------ the sweep, phase 1
PopAll(s) == [sweep[s] EXCEPT !.queue = <<>>, !.updated = "none", !.meeting = NoId,
                              !.meetingStatus = "none", !.failure = FALSE]

\* The loop goes on to the next bot; `failure` tells whether the processing
\* of the bot left behind failed (a throw caught per bot, or updateBotStatus
\* giving the row back for want of a usable answer).
Pop(s) == [sweep[s] EXCEPT !.queue = Tail(@), !.updated = "none", !.meeting = NoId,
                           !.meetingStatus = "none", !.failure = FALSE]
PopFailed(s, pc) == [Pop(s) EXCEPT !.pc = pc, !.failure = TRUE]

\* updateBotStatus got no usable answer: the request threw, or
\* status_changes is missing or empty.
PollFailed(answer) == ~answer.ok \/ Len(answer.changes) = 0

\* db.select().from(recallBots).where(inArray(status, active statuses))
SweepStart(s, alone) ==
    /\ Turn(alone, "sweep", s)
    /\ sweep[s].pc = "idle"
    /\ sweep' = [sweep EXCEPT ![s] = [IdleSweep EXCEPT !.pc = "active",
                                         !.queue = SelectBots(ActiveStatuses)]]
    /\ provReq' = <<>>
    /\ nowRead' = 0
    /\ asked' = {}
    /\ UNCHANGED <<settings, recordingFlag, recallBots, meetings, toggle, fetcher, poll, evalRun, settled, meetingContents, genResponse>>

\* recallService.updateBotStatus(bot): GET /bot/:id, the mapping, and
\* storage.updateRecallBot when the mapped status differs from the row held;
\* when the update throws, updateBotStatus's catch gives the row back.
SweepUpdateBot(s, alone) ==
    /\ Turn(alone, "sweep", s)
    /\ sweep[s].pc = "active"
    /\ sweep[s].queue # <<>>
    /\ \E answer \in SweepAnswers, persistOk \in BOOLEAN :
          LET bot == Head(sweep[s].queue)
              status == UpdateBotStatus(bot.status, answer)
          IN IF status # bot.status /\ persistOk
             THEN /\ recallBots' = [recallBots EXCEPT ![bot.id].status = status]
                  /\ sweep' = [sweep EXCEPT ![s].pc = "propagate", ![s].updated = status,
                                            ![s].failure = PollFailed(answer)]
             ELSE /\ sweep' = [sweep EXCEPT ![s] =
                                  IF PollFailed(answer) \/ status # bot.status
                                  THEN PopFailed(s, "active") ELSE Pop(s)]
                  /\ UNCHANGED recallBots
    /\ provReq' = <<Request("getBot", "updateBotStatus", Head(sweep[s].queue).id, 0)>>
    /\ nowRead' = 0
    /\ UNCHANGED <<settings, recordingFlag, meetings, toggle, fetcher, poll, asked, evalRun, settled, meetingContents, genResponse>>

\* storage.getMeetingByCalendarEventId(bot.calendarEventId) and the choice
\* of the meeting's new status; a throw is caught by the loop's per-bot catch.
SweepReadMeeting(s, alone) ==
    /\ Turn(alone, "sweep", s)
    /\ sweep[s].pc = "propagate"
    /\ \E m \in FirstRowChoices(MeetingsOfEvent(Head(sweep[s].queue).calendarEventId)),
          readOk \in BOOLEAN :
          IF ~readOk
          THEN sweep' = [sweep EXCEPT ![s] = PopFailed(s, "active")]
          ELSE IF m = NoId
          THEN sweep' = [sweep EXCEPT ![s] = [Pop(s) EXCEPT !.pc = "active"]]
          ELSE LET meetingStatus == MeetingStatusFor(sweep[s].updated, meetings[m].status)
               IN IF meetingStatus # meetings[m].status
                  THEN sweep' = [sweep EXCEPT ![s].pc = "writeMeeting",
                                              ![s].meeting = m,
                                              ![s].meetingStatus = meetingStatus]
                  ELSE sweep' = [sweep EXCEPT ![s] = [Pop(s) EXCEPT !.pc = "active"]]
    /\ provReq' = <<>>
    /\ nowRead' = 0
    /\ UNCHANGED <<settings, recordingFlag, recallBots, meetings, toggle, fetcher, poll, asked, evalRun, settled, meetingContents, genResponse>>

\* storage.updateMeeting(meeting.id, { status: meetingStatus })
SweepWriteMeeting(s, alone) ==
    /\ Turn(alone, "sweep", s)
    /\ sweep[s].pc = "writeMeeting"
    /\ \E persistOk \in BOOLEAN :
          IF persistOk
          THEN /\ meetings' = [meetings EXCEPT
                                  ![sweep[s].meeting].status = sweep[s].meetingStatus]
               /\ sweep' = [sweep EXCEPT ![s] = [Pop(s) EXCEPT !.pc = "active"]]
          ELSE /\ UNCHANGED meetings
               /\ sweep' = [sweep EXCEPT ![s] = PopFailed(s, "active")]
    /\ provReq' = <<>>
    /\ nowRead' = 0
    /\ UNCHANGED <<settings, recordingFlag, recallBots, toggle, fetcher, poll, asked, evalRun, settled, meetingContents, genResponse>>

\* ------------------------------------------------------------------- texts
Blank == " "
RECURSIVE TrimLeft(_)
TrimLeft(t) == IF t # <<>> /\ Head(t) = Blank THEN TrimLeft(Tail(t)) ELSE t
RECURSIVE TrimRight(_)
TrimRight(t) ==
    IF t # <<>> /\ t[Len(t)] = Blank THEN TrimRight(SubSeq(t, 1, Len(t) - 1)) ELSE t
\* String.prototype.trim
Trim(t) == TrimRight(TrimLeft(t))

\* Array.prototype.join(' ')
RECURSIVE JoinNoBlank(_)
JoinNoBlank(texts) ==
    IF texts = <<>> THEN <<>> ELSE texts[1] \o JoinNoBlank(Tail(texts))
RECURSIVE JoinBlank(_)
JoinBlank(texts) ==
    IF texts = <<>> THEN <<>>
    ELSE IF Len(texts) = 1 THEN texts[1]
    ELSE texts[1] \o <<Blank>> \o JoinBlank(Tail(texts))

\* segment.text || segment.content || segment.transcript || ''
SegmentText(seg) ==
    IF seg.text # <<>> THEN seg.text
    ELSE IF seg.content # <<>> THEN seg.content
    ELSE seg.transcript

SegmentTexts(segs) == [i \in 1..Len(segs) |-> SegmentText(segs[i])]

\* ------------------------------------------- provider answers (transcripts)
\* GET /bot/:id as processMeeting and getTranscript read it.  An absent or
\* empty string field is <<>>; ages are minutes before `now`.
Snapshot(ok, changes, recordings, provider, tcSet, tcAge, rcAge) ==
    [ok |-> ok, changes |-> changes, recordings |-> recordings, provider |-> provider,
     tcSet |-> tcSet, tcAge |-> tcAge, rcAge |-> rcAge]
SnapshotError == Snapshot(FALSE, <<>>, "missing", "deepgram", FALSE, 0, 0)

\* A transcript endpoint's answer after JSON parsing.
Response(ok, kind, str, transcript, text, content, segs, dataKind, dataStr, dataSegs) ==
    [ok |-> ok, kind |-> kind, str |-> str, transcript |-> transcript, text |-> text,
     content |-> content, segs |-> segs, dataKind |-> dataKind, dataStr |-> dataStr,
     dataSegs |-> dataSegs]
Seg(text) == [text |-> text, content |-> <<>>, transcript |-> <<>>]

ResponseError == Response(FALSE, "object", <<>>, <<>>, <<>>, <<>>, <<>>, "none", <<>>, <<>>)
ResponseObject == Response(TRUE, "object", <<>>, <<>>, <<>>, <<>>, <<>>, "none", <<>>, <<>>)
ResponseString(t) == [ResponseObject EXCEPT !.kind = "string", !.str = t]
ResponseArray(segs) == [ResponseObject EXCEPT !.kind = "array", !.segs = segs]

\* The shape probes of getTranscript on one answer: the text returned, or
\* NoTranscript when the loop goes on to the next endpoint.
ExtractTextFirst(r) ==
    IF ~r.ok THEN NoTranscript
    ELSE IF r.kind = "string" THEN (IF r.str # <<>> THEN r.str ELSE NoTranscript)
    ELSE IF r.kind = "array"
         THEN (IF Trim(JoinBlank(SegmentTexts(r.segs))) # <<>>
               THEN JoinBlank(SegmentTexts(r.segs)) ELSE NoTranscript)
    ELSE IF r.text # <<>> THEN r.text
    ELSE IF r.transcript # <<>> THEN r.transcript
    ELSE IF r.content # <<>> THEN r.content
    ELSE IF r.dataKind = "string" /\ r.dataStr # <<>> THEN r.dataStr
    ELSE IF r.dataKind = "array" /\ Trim(JoinBlank(SegmentTexts(r.dataSegs))) # <<>>
         THEN JoinBlank(SegmentTexts(r.dataSegs))
    ELSE NoTranscript
Extract(r) ==
    IF ~r.ok THEN NoTranscript
    ELSE IF r.kind = "string" THEN (IF r.str # <<>> THEN r.str ELSE NoTranscript)
    ELSE IF r.kind = "array"
         THEN (IF Trim(JoinBlank(SegmentTexts(r.segs))) # <<>>
               THEN JoinBlank(SegmentTexts(r.segs)) ELSE NoTranscript)
    ELSE IF r.transcript # <<>> THEN r.transcript
    ELSE IF r.text # <<>> THEN r.text
    ELSE IF r.content # <<>> THEN r.content
    ELSE IF r.dataKind = "string" /\ r.dataStr # <<>> THEN r.dataStr
    ELSE IF r.dataKind = "array" /\ Trim(JoinBlank(SegmentTexts(r.dataSegs))) # <<>>
         THEN JoinBlank(SegmentTexts(r.dataSegs))
    ELSE NoTranscript

TranscriptGuardsNoCompletion(snap) ==
    /\ snap.ok
    /\ snap.recordings = "some"

\* getTranscript's guards before the endpoint loop.
TranscriptGuards(snap) ==
    /\ snap.ok
    /\ snap.recordings = "some"
    /\ snap.tcSet

\* The endpoints requested: up to and including the first that yields a text.
RECURSIVE Probed(_)
Probed(responses) ==
    IF responses = <<>> THEN 0
    ELSE IF Extract(Head(responses)) # NoTranscript THEN 1
    ELSE 1 + Probed(Tail(responses))

RECURSIVE FirstText(_)
FirstText(responses) ==
    IF responses = <<>> THEN NoTranscript
    ELSE IF Extract(Head(responses)) # NoTranscript THEN Extract(Head(responses))
    ELSE FirstText(Tail(responses))

\* getTranscript(botId): the text, or NoTranscript for null.
GetTranscript(snap, responses) ==
    IF TranscriptGuards(snap) THEN FirstText(responses) ELSE NoTranscript

\* The gates of processMeeting between its status read and getTranscript.
DoneCodes == {"done", "recording_done", "call_ended"}
ReadyIgnoringRecordings(snap) ==
    /\ snap.ok
    /\ snap.changes # <<>>
    /\ LatestStatus(snap.changes) \in DoneCodes
    /\ snap.provider # "none"
    /\ IF snap.tcSet THEN ~(snap.tcAge < TranscriptionQuiescence)
       ELSE ~(snap.rcAge < RecordingQuiescence)
ReadyPastQuiescence(snap) ==
    /\ snap.ok
    /\ snap.changes # <<>>
    /\ LatestStatus(snap.changes) \in DoneCodes
    /\ snap.recordings = "some"
    /\ snap.provider # "none"
    /\ IF snap.tcSet THEN snap.tcAge > TranscriptionQuiescence
       ELSE ~(snap.rcAge < RecordingQuiescence)
ReadyWhateverProvider(snap) ==
    /\ snap.ok
    /\ snap.changes # <<>>
    /\ LatestStatus(snap.changes) \in DoneCodes
    /\ snap.recordings = "some"
    /\ IF snap.tcSet THEN ~(snap.tcAge < TranscriptionQuiescence)
       ELSE ~(snap.rcAge < RecordingQuiescence)
ReadyToFetch(snap) ==
    /\ snap.ok
    /\ snap.changes # <<>>
    /\ LatestStatus(snap.changes) \in DoneCodes
    /\ snap.recordings = "some"
    /\ snap.provider # "none"
    /\ IF snap.tcSet THEN ~(snap.tcAge < TranscriptionQuiescence)
       ELSE ~(snap.rcAge < RecordingQuiescence)

\* transcript && transcript.trim()
Storable(t) == t # NoTranscript /\ Trim(t) # <<>>

\* The provider requests of one processMeeting pass after the meeting read.
FetchRequests(bot, snap1, snap2, responses) ==
    <<Request("getBot", "processMeeting", bot, 0)>>
    \o (IF ReadyToFetch(snap1) THEN <<Request("getBot", "getTranscript", bot, 0)>> ELSE <<>>)
    \o (IF ReadyToFetch(snap1) /\ TranscriptGuards(snap2)
        THEN [i \in 1..Probed(responses) |-> Request("transcript", "getTranscript", bot, 0)]
        ELSE <<>>)

\* The history after one processMeeting pass: the bot is added when the pass
\* requested a transcript endpoint.
Asked(bot, snap1, snap2, responses) ==
    IF \E i \in DOMAIN FetchRequests(bot, snap1, snap2, responses) :
          FetchRequests(bot, snap1, snap2, responses)[i].op = "transcript"
    THEN asked \cup {bot}
    ELSE asked

\* processMeeting's own status request threw, or its answer has no
\* status_changes entry to read: processMeeting's catch ends the pass.
FetchFailed(snap) == ~snap.ok \/ snap.changes = <<>>

\* The row processMeeting leaves behind for the meeting it read.
ProcessedMeeting(row, snap1, snap2, responses) ==
    IF ReadyToFetch(snap1) /\ Storable(GetTranscript(snap2, responses))
    THEN [row EXCEPT !.transcript = GetTranscript(snap2, responses),
                     !.status = "completed"]
    ELSE row

\* if (!meeting.transcript)
AlwaysFetch(row) == TRUE
NeedsTranscript(row) == row.transcript = NoTranscript \/ row.transcript = <<>>

\* processMeeting(recallBot) from its transcript check on, as a function of
\* the bot row held, the meeting row read and the provider's answers: the
\* meeting row left behind, the text getTranscript returned (NoTranscript
\* when null or not called) and the provider requests sent.
ProcessMeetingFetches(botStatus, row) == botStatus = "completed" /\ NeedsTranscript(row)
ProcessMeetingRow(botStatus, row, snap1, snap2, responses) ==
    IF ProcessMeetingFetches(botStatus, row)
    THEN ProcessedMeeting(row, snap1, snap2, responses)
    ELSE row
ProcessMeetingText(botStatus, row, snap1, snap2, responses) ==
    IF ProcessMeetingFetches(botStatus, row) /\ ReadyToFetch(snap1)
    THEN GetTranscript(snap2, responses)
    ELSE NoTranscript
ProcessMeetingRequests(botStatus, row, bot, snap1, snap2, responses) ==
    IF ProcessMeetingFetches(botStatus, row)
    THEN FetchRequests(bot, snap1, snap2, responses)
    ELSE <<>>

\* Inputs fed to processMeeting by the sweep and the manual route.
Hello == <<"Hello", Blank, "world">>
Hi == <<"Hi">>
FetchSnapshots ==
    {SnapshotError,
     Snapshot(TRUE, <<"in_call_recording">>, "some", "deepgram", TRUE, 2, 2),
     Snapshot(TRUE, <<"done">>, "missing", "deepgram", FALSE, 0, 0),
     Snapshot(TRUE, <<"done">>, "some", "none", TRUE, 2, 2),
     Snapshot(TRUE, <<"done">>, "some", "deepgram", TRUE, 1, 1),
     Snapshot(TRUE, <<"done">>, "some", "deepgram", TRUE, 2, 2),
     Snapshot(TRUE, <<"done">>, "some", "deepgram", FALSE, 0, 4),
     Snapshot(TRUE, <<"done">>, "some", "deepgram", FALSE, 0, 5)}
\* getTranscript's own status read.
RecheckSnapshots ==
    {SnapshotError,
     Snapshot(TRUE, <<"done">>, "some", "deepgram", FALSE, 0, 5),
     Snapshot(TRUE, <<"done">>, "some", "deepgram", TRUE, 2, 2)}
FetchResponses ==
    {<<ResponseError, ResponseError, ResponseError>>,
     <<ResponseString(Hello), ResponseError, ResponseError>>,
     <<ResponseError, ResponseString(Hi), ResponseError>>,
     <<ResponseString(<<>>), ResponseArray(<<Seg(<<>>)>>),
       ResponseArray(<<Seg(<<"Hello">>), Seg(<<"world">>)>>)>>,
     <<[ResponseObject EXCEPT !.transcript = <<Blank>>], ResponseString(Hi),
       ResponseError>>}

\* Inputs of processMeeting applied on its own: every combination of the
\* snapshot fields its gates read, around the 2 and 5 minute limits.
EvalSnapshots ==
    {SnapshotError} \cup
    {Snapshot(TRUE, c, r, pr, tc, ta, ra) :
        c \in {<<>>, <<"in_call_recording">>, <<"done">>, <<"ready", "call_ended">>},
        r \in {"missing", "empty", "some"},
        pr \in {"deepgram", "none"},
        tc \in BOOLEAN,
        ta \in {TranscriptionQuiescence - 1, TranscriptionQuiescence},
        ra \in {RecordingQuiescence - 1, RecordingQuiescence}}
EvalResponses ==
    FetchResponses \cup
    {<<[ResponseObject EXCEPT !.text = Hi, !.content = Hello], ResponseError, ResponseError>>,
     <<[ResponseObject EXCEPT !.transcript = Hello, !.text = Hi], ResponseError,
       ResponseError>>,
     <<ResponseObject, [ResponseObject EXCEPT !.content = Hi], ResponseError>>,
     <<ResponseObject, [ResponseObject EXCEPT !.dataKind = "string", !.dataStr = Hi],
       ResponseError>>,
     <<[ResponseObject EXCEPT !.dataKind = "array", !.dataSegs = <<Seg(<<>>)>>],
       [ResponseObject EXCEPT !.dataKind = "array",
                              !.dataSegs = <<Seg(<<"Hello">>), Seg(<<"world">>)>>],
       ResponseError>>,
     <<ResponseArray(<<[text |-> <<>>, content |-> <<"Hello">>, transcript |-> <<>>],
                       [text |-> <<>>, content |-> <<>>, transcript |-> <<"world">>]>>),
       ResponseError, ResponseError>>,
     <<ResponseArray(<<Seg(<<Blank>>), Seg(<<>>)>>), ResponseString(Hi), ResponseError>>}
EvalRows ==
    {[calendarEventId |-> 1, recallBotId |-> 1, status |-> st, transcript |-> t, req |-> 1] :
        st \in {"completed"}, t \in {NoTranscript, <<>>, Hi}}
    \cup {[calendarEventId |-> 1, recallBotId |-> 1, status |-> "in_progress",
           transcript |-> NoTranscript, req |-> 1]}

\* Once the environment has settled, GET /bot/:id reports a done code and a
\* first recording whose transcription completed two minutes ago or earlier,
\* the transcript endpoints hold a non-empty text, and storage calls succeed.
SettledSnapshots == {Snapshot(TRUE, <<"done">>, "some", "deepgram", TRUE, 2, 2)}
SettledResponses ==
    {<<ResponseString(Hello), ResponseError, ResponseError>>,
     <<ResponseError, ResponseString(Hi), ResponseError>>,
     <<ResponseString(<<>>), ResponseArray(<<Seg(<<>>)>>),
       ResponseArray(<<Seg(<<"Hello">>), Seg(<<"world">>)>>)>>}
Now(all, whenSettled) == IF settled THEN all \cap whenSettled ELSE all

\* ------------------------------------------------------ the sweep, phase 2
\* db.select().from(recallBots).where(eq(status, 'completed'))
SweepSelectCompleted(s, alone) ==
    /\ Turn(alone, "sweep", s)
    /\ sweep[s].pc = "active"
    /\ sweep[s].queue = <<>>
    /\ sweep' = [sweep EXCEPT ![s].pc = "completed",
                              ![s].queue = SelectBots({"completed"}),
                              ![s].failure = FALSE]
    /\ provReq' = <<>>
    /\ nowRead' = 0
    /\ UNCHANGED <<settings, recordingFlag, recallBots, meetings, toggle, fetcher, poll, asked, evalRun, settled, meetingContents, genResponse>>

\* processMeeting(bot) up to its meeting read: the status check on the row
\* held, getMeetingByCalendarEventId, and the transcript check.
SweepProcessRead(s, alone) ==
    /\ Turn(alone, "sweep", s)
    /\ sweep[s].pc = "completed"
    /\ sweep[s].queue # <<>>
    /\ LET bot == Head(sweep[s].queue)
       IN \E m \in FirstRowChoices(MeetingsOfEvent(bot.calendarEventId)),
             readOk \in Now(BOOLEAN, {TRUE}) :
             IF ~readOk
             THEN sweep' = [sweep EXCEPT ![s] = PopFailed(s, "completed")]
             ELSE IF bot.status = "completed" /\ m # NoId /\ NeedsTranscript(meetings[m])
             THEN sweep' = [sweep EXCEPT ![s].pc = "fetch", ![s].meeting = m,
                                         ![s].failure = FALSE]
             ELSE sweep' = [sweep EXCEPT ![s] = Pop(s)]
    /\ provReq' = <<>>
    /\ nowRead' = 0
    /\ UNCHANGED <<settings, recordingFlag, recallBots, meetings, toggle, fetcher, poll, asked, evalRun, settled, meetingContents, genResponse>>

\* The rest of processMeeting: getBotStatus, the gates, getTranscript and
\* storage.updateMeeting(meeting.id, { transcript, status: 'completed' }).
SweepProcessFetch(s, alone) ==
    /\ Turn(alone, "sweep", s)
    /\ sweep[s].pc = "fetch"
    /\ \E snap1 \in Now(FetchSnapshots, SettledSnapshots),
          snap2 \in Now(RecheckSnapshots, SettledSnapshots),
          responses \in Now(FetchResponses, SettledResponses),
          persistOk \in Now(BOOLEAN, {TRUE}) :
          LET m == sweep[s].meeting
              row == ProcessedMeeting(meetings[m], snap1, snap2, responses)
          IN /\ meetings' = [meetings EXCEPT ![m] = IF persistOk THEN row ELSE @]
             /\ provReq' = FetchRequests(Head(sweep[s].queue).id, snap1, snap2, responses)
             /\ asked' = Asked(Head(sweep[s].queue).id, snap1, snap2, responses)
             /\ nowRead' = 0
             /\ sweep' = [sweep EXCEPT ![s] =
                             IF FetchFailed(snap1) \/ (row # meetings[m] /\ ~persistOk)
                             THEN PopFailed(s, "completed")
                             ELSE [Pop(s) EXCEPT !.pc = "completed"]]
    /\ UNCHANGED <<settings, recordingFlag, recallBots, toggle, fetcher, poll, evalRun, settled, meetingContents, genResponse>>

\* The callback returns.
SweepFinish(s, alone) ==
    /\ Turn(alone, "sweep", s)
    /\ sweep[s].pc = "completed"
    /\ sweep[s].queue = <<>>
    /\ sweep' = [sweep EXCEPT ![s] = IdleSweep]
    /\ provReq' = <<>>
    /\ nowRead' = 0
    /\ UNCHANGED <<settings, recordingFlag, recallBots, meetings, toggle, fetcher, poll, asked, evalRun, settled, meetingContents, genResponse>>

\* ---------------------------------- POST /api/meetings/:id/fetch-transcript
\* getMeeting and getRecallBot(meeting.recallBotId); a meeting without a bot
\* link is answered 400.
FetchStart(f, alone) ==
    /\ Turn(alone, "fetcher", f)
    /\ fetcher[f].pc = "idle"
    /\ \E m \in MeetingIds :
          /\ meetings[m].recallBotId # NoId
          /\ LET b == meetings[m].recallBotId
             IN fetcher' = [fetcher EXCEPT ![f] =
                   [pc |-> "process",
                    bot |-> [id |-> b, calendarEventId |-> recallBots[b].calendarEventId,
                             status |-> recallBots[b].status],
                    meeting |-> NoId]]
    /\ provReq' = <<>>
    /\ nowRead' = 0
    /\ UNCHANGED <<settings, recordingFlag, recallBots, meetings, toggle, sweep, poll, asked, evalRun, settled, meetingContents, genResponse>>

FetchProcessRead(f, alone) ==
    /\ Turn(alone, "fetcher", f)
    /\ fetcher[f].pc = "process"
    /\ LET bot == fetcher[f].bot
       IN \E m \in FirstRowChoices(MeetingsOfEvent(bot.calendarEventId)) :
             IF bot.status = "completed" /\ m # NoId /\ NeedsTranscript(meetings[m])
             THEN fetcher' = [fetcher EXCEPT ![f].pc = "fetch", ![f].meeting = m]
             ELSE fetcher' = [fetcher EXCEPT ![f] = IdleFetcher]
    /\ provReq' = <<>>
    /\ nowRead' = 0
    /\ UNCHANGED <<settings, recordingFlag, recallBots, meetings, toggle, sweep, poll, asked, evalRun, settled, meetingContents, genResponse>>

FetchProcessFetch(f, alone) ==
    /\ Turn(alone, "fetcher", f)
    /\ fetcher[f].pc = "fetch"
    /\ \E snap1 \in Now(FetchSnapshots, SettledSnapshots),
          snap2 \in Now(RecheckSnapshots, SettledSnapshots),
          responses \in Now(FetchResponses, SettledResponses) :
          LET m == fetcher[f].meeting
          IN /\ meetings' = [meetings EXCEPT
                                ![m] = ProcessedMeeting(@, snap1, snap2, responses)]
             /\ provReq' = FetchRequests(fetcher[f].bot.id, snap1, snap2, responses)
             /\ asked' = Asked(fetcher[f].bot.id, snap1, snap2, responses)
             /\ nowRead' = 0
    /\ fetcher' = [fetcher EXCEPT ![f] = IdleFetcher]
    /\ UNCHANGED <<settings, recordingFlag, recallBots, toggle, sweep, poll, evalRun, settled, meetingContents, genResponse>>

\* --------------------------------------------------- content generation
\* if (!meeting.transcript): null and the empty string are falsy.
HasTranscript(row) == row.transcript # NoTranscript /\ row.transcript # <<>>

ContentsOf(m, type) ==
    {i \in DOMAIN meetingContents :
        meetingContents[i].meetingId = m /\ meetingContents[i].type = type}

GenAnswer(m, type, code) == [meeting |-> m, type |-> type, code |-> code]

\* POST /api/meetings/:id/generate-email: getMeeting, the transcript check,
\* the lookup of an existing email, openaiService.generateFollowUpEmail and
\* storage.createMeetingContent.
GenerateEmail(alone) ==
    /\ Turn(alone, "none", NoId)
    /\ \E m \in 1..NumToggles, generated \in BOOLEAN :
          LET type == "follow_up_email"
              code == IF m \notin MeetingIds THEN 404
                      ELSE IF ~HasTranscript(meetings[m]) THEN 400
                      ELSE IF ContentsOf(m, type) # {} THEN 200
                      ELSE IF ~generated THEN 500
                      ELSE 200
              creates == /\ m \in MeetingIds
                         /\ HasTranscript(meetings[m])
                         /\ ContentsOf(m, type) = {}
                         /\ generated
          IN /\ creates => Len(meetingContents) < MaxContents
             /\ meetingContents' =
                   IF creates THEN Append(meetingContents, [meetingId |-> m, type |-> type])
                   ELSE meetingContents
             /\ genResponse' = GenAnswer(m, type, code)
    /\ provReq' = <<>>
    /\ nowRead' = 0
    /\ UNCHANGED <<settings, recordingFlag, recallBots, meetings, toggle, sweep, fetcher,
                   poll, asked, evalRun, settled>>

\* POST /api/meetings/:id/generate-social-post: the platform check,
\* getMeeting, the transcript check, openaiService.generateSocialMediaPost
\* and generateImage, storage.createMeetingContent.
GenerateSocialPost(alone) ==
    /\ Turn(alone, "none", NoId)
    /\ \E m \in 1..NumToggles, platform \in BOOLEAN, generated \in BOOLEAN :
          LET type == "social_post"
              code == IF ~platform THEN 400
                      ELSE IF m \notin MeetingIds THEN 404
                      ELSE IF ~HasTranscript(meetings[m]) THEN 400
                      ELSE IF ~generated THEN 500
                      ELSE 200
              creates == /\ platform
                         /\ m \in MeetingIds
                         /\ HasTranscript(meetings[m])
                         /\ generated
          IN /\ creates => Len(meetingContents) < MaxContents
             /\ meetingContents' =
                   IF creates THEN Append(meetingContents, [meetingId |-> m, type |-> type])
                   ELSE meetingContents
             /\ genResponse' = GenAnswer(m, type, code)
    /\ provReq' = <<>>
    /\ nowRead' = 0
    /\ UNCHANGED <<settings, recordingFlag, recallBots, meetings, toggle, sweep, fetcher,
                   poll, asked, evalRun, settled>>

\* ---------------------------------------------------------- specifications
ToggleStep(p, alone) ==
    \/ TgStart(p, alone) \/ TgCreateMeeting(p, alone) \/ TgCreateBot(p, alone)
    \/ TgLink(p, alone)
SweepStep(s, alone) ==
    \/ SweepStart(s, alone) \/ SweepUpdateBot(s, alone) \/ SweepReadMeeting(s, alone)
    \/ SweepWriteMeeting(s, alone) \/ SweepSelectCompleted(s, alone)
    \/ SweepProcessRead(s, alone) \/ SweepProcessFetch(s, alone) \/ SweepFinish(s, alone)
FetchStep(f, alone) ==
    \/ FetchStart(f, alone) \/ FetchProcessRead(f, alone) \/ FetchProcessFetch(f, alone)

\* Requests and sweeps interleave at every storage call.
Next ==
    \/ UpdateSettings(FALSE)
    \/ \E p \in Toggles : ToggleStep(p, FALSE)
    \/ \E s \in Sweeps : SweepStep(s, FALSE)
    \/ \E f \in Fetchers : FetchStep(f, FALSE)
    \/ GenerateEmail(FALSE)
    \/ GenerateSocialPost(FALSE)

Spec == Init /\ [][Next]_vars

\* One request or sweep at a time, each run to its end before the next
\* starts.
SeqNext ==
    \/ UpdateSettings(TRUE)
    \/ \E p \in Toggles : ToggleStep(p, TRUE)
    \/ \E s \in Sweeps : SweepStep(s, TRUE)
    \/ \E f \in Fetchers : FetchStep(f, TRUE)

SpecSeq == Init /\ [][SeqNext]_vars

\* The environment settles for good.
Settle ==
    /\ ~settled
    /\ settled' = TRUE
    /\ UNCHANGED <<settings, recordingFlag, recallBots, meetings, toggle, sweep, fetcher,
                   provReq, nowRead, poll, asked, evalRun, meetingContents, genResponse>>

\* One request or sweep at a time in an environment that may settle.  The
\* timer keeps firing the sweep and Node runs every callback it has started
\* to its end, so each kind of step is taken when it stays possible.
LiveNext == SeqNext \/ Settle

SpecLive ==
    /\ Init
    /\ [][LiveNext]_vars
    /\ WF_vars(\E s \in Sweeps : SweepStep(s, TRUE))
    /\ WF_vars(\E p \in Toggles : ToggleStep(p, TRUE) /\ toggle[p].pc # "idle")
    /\ WF_vars(\E f \in Fetchers : FetchStep(f, TRUE) /\ fetcher[f].pc # "idle")

\* Toggle, sweep and content generation, one request or sweep at a time.
GenNext ==
    \/ \E p \in Toggles : ToggleStep(p, TRUE)
    \/ \E s \in Sweeps : SweepStep(s, TRUE)
    \/ GenerateEmail(TRUE)
    \/ GenerateSocialPost(TRUE)

SpecGen == Init /\ [][GenNext]_vars

\* Toggle requests run one at a time; once they are done, sweeps and
\* fetch-transcript requests interleave at every storage call.
TogglesIdle == \A p \in Toggles : ~ToggleBusy(p)
OverlapNext ==
    \/ \E p \in Toggles : ToggleStep(p, TRUE)
    \/ \E s \in Sweeps : TogglesIdle /\ SweepStep(s, FALSE)
    \/ \E f \in Fetchers : TogglesIdle /\ FetchStep(f, FALSE)

SpecOverlap == Init /\ [][OverlapNext]_vars

\* Toggle requests and sweeps interleave at every storage call.
RaceNext ==
    \/ \E p \in Toggles : ToggleStep(p, FALSE)
    \/ \E s \in Sweeps : SweepStep(s, FALSE)

SpecRace == Init /\ [][RaceNext]_vars

\* The status mapping on its own: a row status and a provider answer are
\* drawn, updateBotStatus is applied to them.
InitMap ==
    /\ settings = [exists |-> TRUE, botJoinMinutesBefore |-> DefaultJoinMinutes]
    /\ recordingFlag = [e \in EventIds |-> FALSE]
    /\ recallBots = <<>>
    /\ meetings = <<>>
    /\ toggle = [p \in Toggles |-> IdleToggle]
    /\ sweep = [s \in Sweeps |-> IdleSweep]
    /\ fetcher = [f \in Fetchers |-> IdleFetcher]
    /\ provReq = <<>>
    /\ nowRead = 0
    /\ poll \in [before : BotStatuses, answer : StatusAnswers(MaxChanges), after : {"none"}]
    /\ asked = {}
    /\ evalRun = NoEval
    /\ settled = FALSE
    /\ meetingContents = <<>>
    /\ genResponse = NoResponse

MapStep ==
    /\ poll.after = "none"
    /\ poll' = [poll EXCEPT !.after = UpdateBotStatus(poll.before, poll.answer)]
    /\ UNCHANGED <<settings, recordingFlag, recallBots, meetings, toggle, sweep, fetcher,
                   provReq, nowRead, asked, evalRun, settled, meetingContents, genResponse>>

SpecMap == InitMap /\ [][MapStep]_vars

\* processMeeting on its own: a bot row, the meeting row read and the
\* provider's answers are drawn (the second status read, getTranscript's, is
\* the first one again or one of RecheckSnapshots), and the pass is applied.
InitEval ==
    /\ settings = [exists |-> TRUE, botJoinMinutesBefore |-> DefaultJoinMinutes]
    /\ recordingFlag = [e \in EventIds |-> FALSE]
    /\ recallBots = <<>>
    /\ meetings = <<>>
    /\ toggle = [p \in Toggles |-> IdleToggle]
    /\ sweep = [s \in Sweeps |-> IdleSweep]
    /\ fetcher = [f \in Fetchers |-> IdleFetcher]
    /\ provReq = <<>>
    /\ nowRead = 0
    /\ poll = NoPoll
    /\ asked = {}
    /\ \E b \in {"completed", "recording"}, row \in EvalRows, s1 \in EvalSnapshots,
          r \in EvalResponses :
          \E s2 \in RecheckSnapshots \cup {s1} :
             evalRun = [botStatus |-> b, row |-> row, snap1 |-> s1, snap2 |-> s2,
                        responses |-> r, done |-> FALSE, after |-> row,
                        text |-> NoTranscript, requests |-> <<>>]
    /\ settled = FALSE
    /\ meetingContents = <<>>
    /\ genResponse = NoResponse

EvalStep ==
    /\ ~evalRun.done
    /\ evalRun' =
          [evalRun EXCEPT
             !.done = TRUE,
             !.after = ProcessMeetingRow(evalRun.botStatus, evalRun.row, evalRun.snap1,
                                         evalRun.snap2, evalRun.responses),
             !.text = ProcessMeetingText(evalRun.botStatus, evalRun.row, evalRun.snap1,
                                         evalRun.snap2, evalRun.responses),
             !.requests = ProcessMeetingRequests(evalRun.botStatus, evalRun.row, 1,
                                                 evalRun.snap1, evalRun.snap2,
                                                 evalRun.responses)]
    /\ UNCHANGED <<settings, recordingFlag, recallBots, meetings, toggle, sweep, fetcher,
                   provReq, nowRead, poll, asked, settled, meetingContents, genResponse>>

SpecEval == InitEval /\ [][EvalStep]_vars

\* ================================================================== claims
RowsBy(table, p) == {i \in DOMAIN table : table[i].req = p}
BotRank(status) ==
    CASE status = "scheduled" -> 0
      [] status = "joining" -> 1
      [] status = "joined" -> 1
      [] status = "recording" -> 2
      [] OTHER -> 3
MeetingRank(status) ==
    CASE status = "scheduled" -> 0
      [] status = "in_progress" -> 1
      [] OTHER -> 2
TerminalStatuses == {"completed", "failed"}

\* C1: every calendar event has at most one Bot row and at most one Meeting
\* row, whatever toggle-recording(enable) requests have run or are running.
C1_AtMostOneBotAndMeeting ==
    \A e \in EventIds :
        /\ Cardinality(BotsOfEvent(e)) <= 1
        /\ Cardinality(MeetingsOfEvent(e)) <= 1

\* C2: no step moves a Meeting's status backward in the order
\* scheduled < in_progress < {completed, failed}.
C2_MeetingStatusNeverRegresses ==
    [][\A m \in MeetingIds :
          MeetingRank(meetings[m].status) <= MeetingRank(meetings'[m].status)]_vars

\* C3: a Meeting's transcript, once stored, is left as it is by every later
\* sweep and every later fetch-transcript request.
C3_TranscriptImmutable ==
    [][\A m \in MeetingIds :
          meetings[m].transcript # NoTranscript
              => meetings'[m].transcript = meetings[m].transcript]_vars

\* C3 witness: a sweep has gone through its completed bots, asking the
\* provider nothing in its last step, while a fetched transcript is stored.
C3_Witness ==
    \E s \in Sweeps, m \in MeetingIds :
        /\ sweep[s].pc = "completed"
        /\ sweep[s].queue = <<>>
        /\ provReq = <<>>
        /\ meetings[m].transcript \in {Hello, Hi}

\* C4: no step moves a Bot's status backward in the order
\* scheduled < joining < recording < {completed, failed}.
C4_BotStatusNonDecreasing ==
    [][\A b \in BotIds :
          BotRank(recallBots[b].status) <= BotRank(recallBots'[b].status)]_vars

\* C5: a Bot whose stored status is completed or failed keeps that status,
\* and no step sends updateBotStatus's status request for it.
C5_TerminalBotsLeftAlone ==
    [][\A b \in BotIds :
          recallBots[b].status \in TerminalStatuses
              => /\ recallBots'[b].status = recallBots[b].status
                 /\ \A i \in DOMAIN provReq' :
                        ~(provReq'[i].caller = "updateBotStatus" /\ provReq'[i].bot = b)]_vars

\* C5 witness: a sweep is in its active-bots phase with nothing left to poll
\* while a transcript fetched by an earlier pass is stored, so its bot was
\* completed before this sweep selected its active bots.
C5_Witness ==
    \E s \in Sweeps, m \in MeetingIds :
        /\ sweep[s].pc = "active"
        /\ sweep[s].queue = <<>>
        /\ meetings[m].transcript \in {Hello, Hi}
        /\ \E b \in BotsOfEvent(meetings[m].calendarEventId) :
              recallBots[b].status = "completed"

\* C6: the status updateBotStatus returns is the table's image of the last
\* entry of status_changes; any other code, an empty list or a failed
\* request leaves the status as it was.
C6_Table(code, current) ==
    CASE code = "ready" -> "scheduled"
      [] code \in {"joining_call", "in_waiting_room"} -> "joining"
      [] code \in {"in_call_not_recording", "in_call_recording"} -> "recording"
      [] code \in {"call_ended", "recording_done", "done"} -> "completed"
      [] code \in {"failed", "error"} -> "failed"
      [] OTHER -> current
C6_StatusMapping ==
    poll.after # "none" =>
        poll.after =
            IF poll.answer.ok /\ poll.answer.changes # <<>>
            THEN C6_Table(poll.answer.changes[Len(poll.answer.changes)], poll.before)
            ELSE poll.before

\* C6 witness: a two-entry list whose last entry alone decides the result.
C6_Witness ==
    /\ poll.before = "recording"
    /\ poll.answer.ok
    /\ poll.answer.changes = <<"in_call_recording", "error">>
    /\ poll.after = "failed"

\* C7: when a sweep has changed a Bot's status to joining, recording,
\* completed or failed and is done with that bot without a storage error, a
\* Meeting of the bot's event has in_progress, in_progress, completed or
\* failed respectively.
C7_Corresponding(botStatus) ==
    CASE botStatus \in {"joining", "recording"} -> "in_progress"
      [] OTHER -> botStatus
C7_MeetingFollowsBot ==
    [][\A s \in Sweeps :
          (/\ sweep[s].pc \in {"propagate", "writeMeeting"}
           /\ sweep'[s].pc = "active"
           /\ ~sweep'[s].failure
           /\ sweep[s].updated \in {"joining", "recording", "completed", "failed"})
              => \E m \in MeetingsOfEvent(Head(sweep[s].queue).calendarEventId) :
                    meetings'[m].status = C7_Corresponding(sweep[s].updated)]_vars

\* C8: a request to enable recording for an event with a meeting link, no
\* Bot and start time minus botJoinMinutesBefore after the clock reading goes
\* on to create; it inserts one Meeting with status scheduled, sends the
\* provider join_at = start time minus botJoinMinutesBefore (5 when the value
\* is 0), inserts one Bot with status scheduled when the provider and the
\* insert succeed, and then links its Meeting to its Bot, both scheduled.
C8_Minutes ==
    IF settings.botJoinMinutesBefore = 0 THEN 5 ELSE settings.botJoinMinutesBefore
C9_NoOrphanScheduled ==
    \A m \in MeetingIds :
        (meetings[m].status = "scheduled" /\ toggle[meetings[m].req].pc = "done")
            => BotsOfEvent(meetings[m].calendarEventId) # {}
C9_FailureMarksMeeting ==
    \A p \in Toggles :
        (toggle[p].pc = "createBot" /\ toggle'[p].pc = "done")
            => /\ meetings'[toggle[p].meeting].status = "failed"
               /\ meetings'[toggle[p].meeting].transcript = FailedPlaceholder
               /\ RowsBy(recallBots', p) = {}
C11_SkippedWhenNotFuture ==
    [][\A p \in Toggles :
          (/\ toggle[p].pc = "idle"
           /\ toggle'[p].pc # "idle"
           /\ recordingFlag'[toggle'[p].eventId]
           /\ nowRead' # 0
           /\ ~(StartTime - C8_Minutes > nowRead'))
              => /\ toggle'[p].pc = "done"
                 /\ toggle'[p].response = 200
                 /\ recallBots' = recallBots
                 /\ meetings' = meetings
                 /\ provReq' = <<>>]_vars

\* C11 witness: the join time equals the clock reading (14:55 for a start at
\* 15:00 and 5 minutes) and the request has ended with 200 and no rows.
C11_Witness ==
    \E p \in Toggles :
        /\ toggle[p].pc = "done"
        /\ toggle[p].response = 200
        /\ recordingFlag[toggle[p].eventId]
        /\ settings.botJoinMinutesBefore = 5
        /\ nowRead = StartTime - 5
        /\ RowsBy(meetings, p) = {}
        /\ RowsBy(recallBots, p) = {}

\* C12: a step requests a transcript endpoint for a bot only when the Bot's
\* stored status is completed, a Meeting of its event has no transcript
\* stored, and no transcript endpoint was requested for that bot since the
\* latest sweep began, whoever called processMeeting.
C12_FetchOnlyWhenDueOncePerSweep ==
    [][\A i \in DOMAIN provReq' :
          provReq'[i].op = "transcript"
              => /\ recallBots[provReq'[i].bot].status = "completed"
                 /\ \E m \in MeetingsOfEvent(recallBots[provReq'[i].bot].calendarEventId) :
                        meetings[m].transcript \in {NoTranscript, <<>>}
                 /\ provReq'[i].bot \notin asked]_vars

\* Requests of one processMeeting pass that getTranscript sent, and those of
\* them that went to a transcript endpoint.
C13_ByGetTranscript == {i \in DOMAIN evalRun.requests : evalRun.requests[i].caller = "getTranscript"}
C13_ToEndpoints == {i \in DOMAIN evalRun.requests : evalRun.requests[i].op = "transcript"}

\* C13: a processMeeting pass for a completed bot whose snapshot has no
\* recordings array, or an empty one, calls no getTranscript, requests no
\* transcript endpoint and leaves the Meeting row as it read it; a Meeting
\* that was completed without transcript is so afterwards, so the next sweep
\* selects the bot and probes again.
C13_NoRecordingsNoFetch ==
    (/\ evalRun.done
     /\ evalRun.botStatus = "completed"
     /\ evalRun.snap1.ok
     /\ evalRun.snap1.recordings \in {"missing", "empty"})
        => /\ C13_ByGetTranscript = {}
           /\ C13_ToEndpoints = {}
           /\ evalRun.after = evalRun.row
           /\ (evalRun.row.status = "completed" /\ evalRun.row.transcript = NoTranscript
                  => evalRun.after.status = "completed"
                     /\ evalRun.after.transcript = NoTranscript)

\* C13 witness: the provider reports `done` with an empty recordings array,
\* would pass every other gate and has a transcript to give; the pass has
\* asked for the status once and the Meeting is completed without transcript.
C13_Witness ==
    /\ evalRun.done
    /\ evalRun.botStatus = "completed"
    /\ evalRun.row.status = "completed"
    /\ evalRun.row.transcript = NoTranscript
    /\ evalRun.snap1 = Snapshot(TRUE, <<"done">>, "empty", "deepgram", TRUE, 2, 5)
    /\ evalRun.snap2 = Snapshot(TRUE, <<"done">>, "some", "deepgram", TRUE, 2, 2)
    /\ evalRun.responses[1] = ResponseString(Hello)
    /\ evalRun.requests = <<Request("getBot", "processMeeting", 1, 0)>>
    /\ evalRun.after.status = "completed"
    /\ evalRun.after.transcript = NoTranscript

\* What the claims say of the transcript endpoints' answers.  A segment's
\* text is its `text` field; texts are joined by one blank; a candidate is
\* empty when it has no text, and a joined text also when it is all blanks.
C17_IsBlank(t) == \A i \in DOMAIN t : t[i] = " "
RECURSIVE C18_Joined(_)
C18_Joined(texts) ==
    IF Len(texts) = 0 THEN <<>>
    ELSE IF Len(texts) = 1 THEN texts[1]
    ELSE C18_Joined(SubSeq(texts, 1, Len(texts) - 1)) \o <<" ">> \o texts[Len(texts)]
C18_SegmentsText(segs) ==
    LET joined == C18_Joined([i \in DOMAIN segs |-> segs[i].text])
    IN IF C17_IsBlank(joined) THEN <<>> ELSE joined
C17_Candidates(r) ==
    IF ~r.ok THEN <<>>
    ELSE <<IF r.kind = "string" THEN r.str ELSE <<>>,
           IF r.kind = "object" THEN r.transcript ELSE <<>>,
           IF r.kind = "object" THEN r.text ELSE <<>>,
           IF r.kind = "object" THEN r.content ELSE <<>>,
           IF r.kind = "array" THEN C18_SegmentsText(r.segs) ELSE <<>>,
           IF r.kind = "object" /\ r.dataKind = "string" THEN r.dataStr ELSE <<>>,
           IF r.kind = "object" /\ r.dataKind = "array"
           THEN C18_SegmentsText(r.dataSegs) ELSE <<>>>>
RECURSIVE C17_FirstNonEmpty(_)
C17_FirstNonEmpty(candidates) ==
    IF candidates = <<>> THEN <<>>
    ELSE IF Head(candidates) # <<>> THEN Head(candidates)
    ELSE C17_FirstNonEmpty(Tail(candidates))
C17_Yielding(responses) ==
    {i \in DOMAIN responses : C17_FirstNonEmpty(C17_Candidates(responses[i])) # <<>>}
C17_First(responses) ==
    CHOOSE i \in C17_Yielding(responses) : \A j \in C17_Yielding(responses) : i <= j
C17_Expected(responses) ==
    IF C17_Yielding(responses) = {} THEN NoTranscript
    ELSE C17_FirstNonEmpty(C17_Candidates(responses[C17_First(responses)]))
\* The answers whose segments carry their words in `text`.
C17_PlainSegments(responses) ==
    \A i \in DOMAIN responses :
        \A j \in DOMAIN responses[i].segs \cup DOMAIN responses[i].dataSegs :
            LET seg == IF j \in DOMAIN responses[i].segs THEN responses[i].segs[j]
                       ELSE responses[i].dataSegs[j]
            IN seg.content = <<>> /\ seg.transcript = <<>>

\* C14: a processMeeting pass whose snapshot has transcription_completed_at
\* set less than 2 minutes before now requests no transcript endpoint and
\* leaves the Meeting as read; with it set 2 minutes or more before now (the
\* bot done, transcription enabled, the same snapshot at getTranscript's
\* read) and a text that is not blank in a supported shape, that text is
\* the Meeting's transcript afterwards.
C14_TranscriptionQuiescence ==
    (evalRun.done /\ evalRun.botStatus = "completed" /\ evalRun.snap1.ok
        /\ evalRun.snap1.recordings = "some" /\ evalRun.snap1.tcSet)
        => /\ evalRun.snap1.tcAge < 2
                => C13_ToEndpoints = {} /\ evalRun.after = evalRun.row
           /\ (/\ evalRun.snap1.tcAge >= 2
               /\ evalRun.row.transcript = NoTranscript
               /\ evalRun.snap1.changes # <<>>
               /\ evalRun.snap1.changes[Len(evalRun.snap1.changes)]
                     \in {"done", "recording_done", "call_ended"}
               /\ evalRun.snap1.provider # "none"
               /\ evalRun.snap2 = evalRun.snap1
               /\ C17_PlainSegments(evalRun.responses)
               /\ C17_Expected(evalRun.responses) # NoTranscript
               /\ ~C17_IsBlank(C17_Expected(evalRun.responses)))
                => evalRun.after.transcript = C17_Expected(evalRun.responses)

\* C14 witness: transcription completed exactly 2 minutes ago and the text
\* of the second endpoint has been stored.
C14_Witness ==
    /\ evalRun.done
    /\ evalRun.botStatus = "completed"
    /\ evalRun.row.transcript = NoTranscript
    /\ evalRun.snap1 = Snapshot(TRUE, <<"done">>, "some", "deepgram", TRUE, 2, 5)
    /\ evalRun.snap2 = evalRun.snap1
    /\ evalRun.responses = <<ResponseError, ResponseString(Hi), ResponseError>>
    /\ evalRun.after.transcript = Hi

\* C15: a processMeeting pass whose snapshot has transcription_completed_at
\* unset and the recording's completed_at set (the bot done, recordings
\* present, transcription enabled, no transcript stored, the same snapshot
\* at every status read of the pass) requests no transcript endpoint while
\* fewer than 5 minutes have passed since completed_at, and requests a
\* transcript endpoint once 5 minutes or more have passed.
C15_RecordingQuiescence ==
    (/\ evalRun.done
     /\ evalRun.botStatus = "completed"
     /\ evalRun.row.transcript = NoTranscript
     /\ evalRun.snap1.ok
     /\ evalRun.snap1.changes # <<>>
     /\ evalRun.snap1.changes[Len(evalRun.snap1.changes)]
           \in {"done", "recording_done", "call_ended"}
     /\ evalRun.snap1.recordings = "some"
     /\ evalRun.snap1.provider # "none"
     /\ ~evalRun.snap1.tcSet
     /\ evalRun.snap2 = evalRun.snap1)
        => /\ evalRun.snap1.rcAge < 5 => C13_ToEndpoints = {}
           /\ evalRun.snap1.rcAge >= 5 => C13_ToEndpoints # {}

\* C16: a processMeeting pass whose snapshot names transcription provider
\* `none` leaves the Meeting row as read, transcript and status (so not
\* failed), whatever else the provider answers.
C16_ProviderNoneLeavesMeeting ==
    (evalRun.done /\ evalRun.snap1.ok /\ evalRun.snap1.provider = "none")
        => /\ evalRun.after.transcript = evalRun.row.transcript
           /\ evalRun.after.status = evalRun.row.status
           /\ evalRun.after = evalRun.row

\* C16 witness: provider `none` on a snapshot that passes every other gate,
\* with a transcript on offer; the Meeting is still in_progress without
\* transcript.
C16_Witness ==
    /\ evalRun.done
    /\ evalRun.botStatus = "completed"
    /\ evalRun.row.status = "in_progress"
    /\ evalRun.row.transcript = NoTranscript
    /\ evalRun.snap1 = Snapshot(TRUE, <<"done">>, "some", "none", TRUE, 2, 5)
    /\ evalRun.snap2 = Snapshot(TRUE, <<"done">>, "some", "deepgram", TRUE, 2, 2)
    /\ evalRun.responses[1] = ResponseString(Hello)
    /\ evalRun.after.status = "in_progress"
    /\ evalRun.after.transcript = NoTranscript

\* C17: when getTranscript gets to its endpoints, the text it returns is the
\* first non-empty candidate, taking the endpoints in order and for each
\* answer the shapes in order (string body, .transcript, .text, .content,
\* array of segments, .data as string, .data as array of segments); it
\* requests the endpoints up to the one that yields and no further; when
\* none yields it returns null and the Meeting row is left as read.
C17_FirstNonEmptyInOrder ==
    (/\ evalRun.done
     /\ C13_ByGetTranscript # {}
     /\ evalRun.snap2.ok
     /\ evalRun.snap2.recordings = "some"
     /\ evalRun.snap2.tcSet
     /\ C17_PlainSegments(evalRun.responses))
        => /\ evalRun.text = C17_Expected(evalRun.responses)
           /\ Cardinality(C13_ToEndpoints) =
                 IF C17_Yielding(evalRun.responses) = {} THEN Len(evalRun.responses)
                 ELSE C17_First(evalRun.responses)
           /\ C17_Expected(evalRun.responses) = NoTranscript
                 => evalRun.after = evalRun.row

\* C17 witness: the first answer has .transcript and .text, and .transcript
\* was returned after one endpoint request.
C17_Witness ==
    /\ evalRun.done
    /\ evalRun.responses[1] = [ResponseObject EXCEPT !.transcript = Hello, !.text = Hi]
    /\ evalRun.text = Hello
    /\ Cardinality(C13_ToEndpoints) = 1

\* C17 second witness: every endpoint failed, getTranscript returned null
\* after three requests and the Meeting is as it was, completed.
C17_WitnessExhausted ==
    /\ evalRun.done
    /\ evalRun.responses = <<ResponseError, ResponseError, ResponseError>>
    /\ Cardinality(C13_ToEndpoints) = 3
    /\ evalRun.text = NoTranscript
    /\ evalRun.after = evalRun.row
    /\ evalRun.row.status = "completed"

\* C18: when the first answer that could yield is a bare array of segments,
\* getTranscript returns the segments' texts in order joined by one blank
\* ([{text: "Hello"}, {text: "world"}] gives "Hello world"); when the joined
\* text is blank it is neither returned nor stored.
C18_Texts(segs) == [i \in DOMAIN segs |-> segs[i].text]
C18_ArrayJoinedBySpace ==
    (/\ evalRun.done
     /\ C13_ByGetTranscript # {}
     /\ evalRun.snap2.ok
     /\ evalRun.snap2.recordings = "some"
     /\ evalRun.snap2.tcSet
     /\ C17_PlainSegments(evalRun.responses))
        => \A i \in DOMAIN evalRun.responses :
              (/\ evalRun.responses[i].ok
               /\ evalRun.responses[i].kind = "array"
               /\ \A j \in 1..(i - 1) : j \notin C17_Yielding(evalRun.responses))
                  => LET joined == C18_Joined(C18_Texts(evalRun.responses[i].segs))
                     IN /\ (evalRun.responses[i].segs = <<[text |-> <<"Hello">>,
                                                           content |-> <<>>,
                                                           transcript |-> <<>>],
                                                          [text |-> <<"world">>,
                                                           content |-> <<>>,
                                                           transcript |-> <<>>]>>
                               => evalRun.text = <<"Hello", " ", "world">>)
                        /\ IF C17_IsBlank(joined)
                           THEN /\ evalRun.text # joined
                                /\ evalRun.after.transcript = evalRun.row.transcript
                                    \/ ~C17_IsBlank(evalRun.after.transcript)
                           ELSE evalRun.text = joined

\* C18 witness: an empty string, then an array whose only text is empty,
\* then [{text: "Hello"}, {text: "world"}]: "Hello world" is stored.
C18_Witness ==
    /\ evalRun.done
    /\ evalRun.responses[1] = ResponseString(<<>>)
    /\ evalRun.responses[2] = ResponseArray(<<Seg(<<>>)>>)
    /\ evalRun.responses[3] = ResponseArray(<<Seg(<<"Hello">>), Seg(<<"world">>)>>)
    /\ evalRun.text = <<"Hello", " ", "world">>
    /\ evalRun.after.transcript = <<"Hello", " ", "world">>

\* C19: every Meeting that holds a transcript fetched by processMeeting
\* (any transcript but the creation-failure placeholder) holds a text that
\* is not blank and has status completed.
C19_FetchedTranscriptMeansCompleted ==
    \A m \in MeetingIds :
        meetings[m].transcript \notin {NoTranscript, FailedPlaceholder}
            => /\ ~C17_IsBlank(meetings[m].transcript)
               /\ meetings[m].status = "completed"

\* C20: a sweep step whose processing of a bot failed (the provider's answer
\* was an error or carried no status_changes entry, or storage threw) leaves
\* every Bot and Meeting row as it was and moves the sweep on to the next bot
\* of the same pass; a sweep drops bots from its list only one at a time,
\* from the head, and returns only with the list of its second phase empty.
C20_FailedStep(s) == sweep'[s] # sweep[s] /\ sweep'[s].failure

C20_PerBotIsolation ==
    [][\A s \in Sweeps :
          /\ C20_FailedStep(s) =>
                /\ recallBots' = recallBots
                /\ meetings' = meetings
                /\ sweep[s].queue # <<>>
                /\ sweep'[s].queue = Tail(sweep[s].queue)
                /\ sweep'[s].pc = IF sweep[s].pc \in {"active", "propagate", "writeMeeting"}
                                  THEN "active" ELSE "completed"
          /\ (sweep'[s].queue # sweep[s].queue /\ sweep[s].queue # <<>>) =>
                sweep'[s].queue = Tail(sweep[s].queue)
          /\ (sweep'[s].pc = "idle" /\ sweep[s].pc # "idle") =>
                (sweep[s].pc = "completed" /\ sweep[s].queue = <<>>)]_vars

\* A sweep holding two bots has just failed on the first and has the second
\* still to process.
C20_Witness ==
    \E s \in Sweeps :
        /\ sweep[s].failure
        /\ sweep[s].pc = "active"
        /\ Len(sweep[s].queue) = 1

\* C21: once the environment has settled (done code, transcription completed
\* two minutes ago or more, non-empty transcript), a completed Bot whose
\* linked Meeting has no transcript leads to that Meeting holding a non-empty
\* transcript with status completed, sweeps being fair.
C21_Waiting(m) ==
    /\ m \in MeetingIds
    /\ meetings[m].recallBotId # NoId
    /\ recallBots[meetings[m].recallBotId].status = "completed"
    /\ meetings[m].transcript \in {NoTranscript, <<>>}
C21_Stored(m) ==
    /\ m \in MeetingIds
    /\ meetings[m].status = "completed"
    /\ meetings[m].transcript \notin {NoTranscript, <<>>}
    /\ Trim(meetings[m].transcript) # <<>>

C21_TranscriptEventuallyStored ==
    \A m \in 1..NumToggles : (settled /\ C21_Waiting(m)) ~> C21_Stored(m)

\* C22: a step that changes the status of an existing Bot, or the status or
\* transcript of an existing Meeting, is a step of the sweep or of a
\* toggle-recording request that is creating the pair.
C22_Progressed ==
    \/ \E b \in BotIds : recallBots'[b].status # recallBots[b].status
    \/ \E m \in MeetingIds : \/ meetings'[m].status # meetings[m].status
                              \/ meetings'[m].transcript # meetings[m].transcript
C22_SweepSoleDriver ==
    [][C22_Progressed =>
          \/ \E s \in Sweeps : sweep'[s] # sweep[s]
          \/ \E p \in Toggles : toggle'[p] # toggle[p] /\ toggle[p].pc = "createBot"]_vars

\* C23: a Meeting whose status is failed keeps that status and its
\* transcript in every step, and a bot creation request is sent to the
\* provider only by a toggle-recording request.
C23_FailedMeetingStaysFailed ==
    [][/\ \A m \in MeetingIds :
             meetings[m].status = "failed" =>
                /\ meetings'[m].status = "failed"
                /\ meetings'[m].transcript = meetings[m].transcript
       /\ (\E i \in DOMAIN provReq' : provReq'[i].op = "createBot") =>
             \E p \in Toggles : toggle[p].pc = "createBot" /\ toggle'[p] # toggle[p]]_vars

\* C24: a generation request creates a MeetingContent row only for a Meeting
\* whose status is completed and whose transcript is stored; for any other
\* Meeting it is answered with an error and creates nothing.
C24_Eligible(m) ==
    /\ m \in MeetingIds
    /\ meetings[m].status = "completed"
    /\ meetings[m].transcript \notin {NoTranscript, <<>>}
C24_GenerationOnlyWhenCompleted ==
    [][/\ Len(meetingContents') > Len(meetingContents) =>
             C24_Eligible(meetingContents'[Len(meetingContents')].meetingId)
       /\ (genResponse' # genResponse /\ ~C24_Eligible(genResponse'.meeting)) =>
             /\ genResponse'.code # 200
             /\ meetingContents' = meetingContents]_vars

\* C25: the stored botJoinMinutesBefore stays an integer in 1..30 across
\* every step, and every bot creation request asks the bot to join between 1
\* and 30 minutes before the event's start.
C25_JoinMinutesInRange ==
    [][/\ settings'.botJoinMinutesBefore \in 1..30
       /\ \A i \in DOMAIN provReq' :
             provReq'[i].op = "createBot" => (StartTime - provReq'[i].joinAt) \in 1..30]_vars

\* C26: a sweep works on one bot at a time, the head of its list: the
\* provider requests of a step all name that bot, the step changes no other
\* Bot row and no Meeting of another event, and the list loses only its head.
\* A sweep under way can always take its next step, and every step brings it
\* closer to its end, so it visits every bot it selected and returns.
C26_Position(sw) ==
    CASE sw.pc = "idle" -> 0
      [] sw.pc = "fetch" -> 1 + 2 * Len(sw.queue)
      [] sw.pc = "completed" -> 2 + 2 * Len(sw.queue)
      [] sw.pc = "writeMeeting" -> 2 * NumToggles + 3 + 3 * Len(sw.queue)
      [] sw.pc = "propagate" -> 2 * NumToggles + 4 + 3 * Len(sw.queue)
      [] OTHER -> 2 * NumToggles + 5 + 3 * Len(sw.queue)
C26_HoldsBot(s) == sweep[s].queue # <<>>
C26_OneBotStep(s) ==
    LET bot == Head(sweep[s].queue)
    IN /\ \A i \in DOMAIN provReq' : provReq'[i].bot = bot.id
       /\ \A b \in BotIds : b # bot.id => recallBots'[b] = recallBots[b]
       /\ \A m \in MeetingIds :
             meetings[m].calendarEventId # bot.calendarEventId => meetings'[m] = meetings[m]
       /\ sweep'[s].queue \in {sweep[s].queue, Tail(sweep[s].queue)}
C26_CanGoOn == \A s \in Sweeps : sweep[s].pc # "idle" => ENABLED SweepStep(s, FALSE)
C26_OneBotAtATime ==
    /\ []C26_CanGoOn
    /\ [][\A s \in Sweeps :
             sweep'[s] # sweep[s] =>
                /\ sweep[s].pc # "idle" => C26_Position(sweep'[s]) < C26_Position(sweep[s])
                /\ C26_HoldsBot(s) => C26_OneBotStep(s)]_vars

\* A sweep that selected two completed bots is done with the first and has
\* the second left.
C26_Witness ==
    \E s \in Sweeps :
        /\ sweep[s].pc = "completed"
        /\ Len(sweep[s].queue) = 1
        /\ Len(SelectBots({"completed"})) = 2

\* C27: a Meeting's transcript is written at most once: a step taken while
\* the Meeting holds a stored, non-blank transcript leaves that transcript as
\* it is, however sweeps and fetch-transcript requests interleave.
C27_TranscriptWrittenOnce ==
    [][\A m \in MeetingIds :
          Storable(meetings[m].transcript) /\ meetings[m].recallBotId # NoId
              => meetings'[m].transcript = meetings[m].transcript]_vars

\* C28: a processMeeting pass changes the Meeting row only if the latest
\* status code of its own status read is done, recording_done or call_ended
\* and the first recording in the status read of getTranscript has
\* transcription_completed_at set.
C28_StoresOnlyWhenDoneAndTranscribed ==
    evalRun.done /\ evalRun.after # evalRun.row =>
        /\ evalRun.snap1.ok
        /\ evalRun.snap1.changes # <<>>
        /\ evalRun.snap1.changes[Len(evalRun.snap1.changes)]
               \in {"done", "recording_done", "call_ended"}
        /\ evalRun.snap2.ok
        /\ evalRun.snap2.recordings = "some"
        /\ evalRun.snap2.tcSet

\* A pass that got through on the recording's age (no completion time in its
\* own status read) and stored a transcript.
C28_Witness ==
    /\ evalRun.done
    /\ evalRun.after.transcript # evalRun.row.transcript
    /\ evalRun.after.status = "completed"
    /\ ~evalRun.snap1.tcSet
    /\ evalRun.snap2.tcSet

\* C29: the Meeting a sweep picks for the bot it is working on, and every
\* Meeting row a sweep step changes, is the Meeting linked to that bot
\* (meeting.recallBotId = bot.id).
C29_SweepUpdatesLinkedMeeting ==
    [][\A s \in Sweeps :
          (sweep'[s] # sweep[s] /\ sweep[s].queue # <<>>) =>
             LET bot == Head(sweep[s].queue)
             IN /\ sweep'[s].meeting # NoId =>
                      meetings[sweep'[s].meeting].recallBotId = bot.id
                /\ \A m \in MeetingIds :
                      meetings'[m] # meetings[m] => meetings[m].recallBotId = bot.id]_vars

\* C30: a toggle-recording request with isRecordingEnabled = false sets the
\* event's recording flag to false and does nothing else: no Bot or Meeting
\* row changes, no provider request is sent, the request is answered at
\* once.  A sweep that starts selects every Bot in an active status whatever
\* the recording flag of its event.
C30_Disables(p) ==
    /\ toggle[p].pc = "idle"
    /\ toggle'[p].pc # "idle"
    /\ toggle'[p].outcome = "disabled"
C30_DisableOnlyClearsFlag ==
    [][/\ \A p \in Toggles :
             C30_Disables(p) =>
                /\ recordingFlag' = [recordingFlag EXCEPT ![toggle'[p].eventId] = FALSE]
                /\ recallBots' = recallBots
                /\ meetings' = meetings
                /\ provReq' = <<>>
                /\ toggle'[p].pc = "done"
       /\ \A s \in Sweeps :
             (sweep[s].pc = "idle" /\ sweep'[s].pc # "idle") =>
                {sweep'[s].queue[i].id : i \in DOMAIN sweep'[s].queue}
                   = {b \in BotIds :
                        recallBots[b].status \in {"scheduled", "joined", "joining",
                                                   "recording"}}]_vars

\* Recording was disabled for an event that has a scheduled Bot, and a sweep
\* that started afterwards holds that Bot.
C30_Witness ==
    \E p \in Toggles, s \in Sweeps :
        /\ toggle[p].outcome = "disabled"
        /\ ~recordingFlag[toggle[p].eventId]
        /\ sweep[s].pc = "active"
        /\ sweep[s].queue # <<>>
        /\ Head(sweep[s].queue).calendarEventId = toggle[p].eventId
        /\ meetings # <<>>

====
